---- MODULE Spec2Model ----
(***************************************************************************)
(* State-machine model of the SysInfo applet (src/src/applet.rs,           *)
(* src/src/config.rs): the SysInfo struct, its init, and the update        *)
(* handler for the four messages Tick, ToggleWindow, PopupClosed and       *)
(* ToggleIncludeSwapWithRam.                                               *)
(*                                                                         *)
(* Conventions                                                             *)
(*   Option<T>      : <<>> is None, <<x>> is Some(x).                      *)
(*   String         : a sequence of one-character strings.                 *)
(*   Vec<T>         : a sequence.                                          *)
(*   Instant        : whole seconds since init.                            *)
(*   f64 speeds     : upload_speed / download_speed hold the numerator of  *)
(*                    the quotient by BYTES_PER_MB (2.0 is 2 * 1_000_000). *)
(*   u64 arithmetic : readings stay far below 2^64 / 100, so the products  *)
(*                    of update_sysinfo_data do not overflow.              *)
(*   A panic of the handler (integer division by zero) sets crashed; the   *)
(*   process is gone and no further message is handled.                    *)
(***************************************************************************)
EXTENDS Integers, Sequences, FiniteSets, TLC

VARIABLES
    config,               \* SysInfoConfig
    config_handler,       \* Option<Config>: TRUE when Some
    popup,                \* Option<window::Id>
    next_id,              \* window::Id::unique()'s process-wide counter
    system,               \* sysinfo::System: the cached memory and swap counters
    networks,             \* sysinfo::Networks: name -> current and previous counters
    components,           \* sysinfo::Components: the sensors of the last refresh
    cpu_usage,
    cpu_temp,
    ram_usage,
    download_speed,
    upload_speed,
    last_scan,
    physical_interfaces,
    ups_temp,
    nvml,                 \* Option<Nvml>: TRUE when Some
    gpu_load,
    gpu_temp,
    gpu_vram_used,
    gpu_vram_total,
    now,                  \* the monotonic clock Instant::now() reads
    crashed,              \* the handler panicked
    toggled,              \* history: the value of the toggle messages since the last Tick
    last                  \* history: the last operation and the readings it was given

vars ==
    << config, config_handler, popup, next_id, system, networks, components,
       cpu_usage, cpu_temp, ram_usage, download_speed, upload_speed, last_scan,
       physical_interfaces, ups_temp, nvml, gpu_load, gpu_temp, gpu_vram_used,
       gpu_vram_total, now, crashed, toggled, last >>

None == << >>

Some(x) == << x >>

IsSome(o) == Len(o) = 1

Unwrap(o) == o[1]

Range(s) == { s[i] : i \in 1..Len(s) }

(***************************************************************************)
(* Program constants.                                                      *)
(***************************************************************************)
SCAN_INTERVAL == 10

BYTES_PER_MB == 1000000

BYTES_PER_MIB == 1048576

(***************************************************************************)
(* Bounds of the model.                                                    *)
(***************************************************************************)
MaxTime == 24

MaxIds == 1

MaxSensors == 3

MaxMem == 2

MaxSwap == 1

MaxDt == 2

MaxLines == 2

(***************************************************************************)
(* Strings.                                                                *)
(***************************************************************************)
UpperCase == << "A", "C", "P", "T", "U", "K", "L", "Z" >>

LowerCase == << "a", "c", "p", "t", "u", "k", "l", "z" >>

\* char::to_lowercase on the letters the model's labels use
LowerChar(c) ==
    IF \E i \in 1..Len(UpperCase) : UpperCase[i] = c
    THEN LowerCase[CHOOSE i \in 1..Len(UpperCase) : UpperCase[i] = c]
    ELSE c

\* str::to_lowercase
ToLowercase(s) == [ i \in 1..Len(s) |-> LowerChar(s[i]) ]

\* str::contains(&str)
Contains(s, sub) ==
    \E i \in 0..(Len(s) - Len(sub)) : SubSeq(s, i + 1, i + Len(sub)) = sub

\* the index of the first occurrence of character c in s, 0 when there is none
IndexOf(s, c) ==
    IF \E i \in 1..Len(s) : s[i] = c
    THEN CHOOSE i \in 1..Len(s) : s[i] = c /\ \A j \in 1..(i - 1) : s[j] # c
    ELSE 0

IsWhitespace(c) == c \in { " ", "\t", "\r", "\n" }

\* str::trim
Trim(s) ==
    IF \A i \in 1..Len(s) : IsWhitespace(s[i])
    THEN << >>
    ELSE LET first == CHOOSE i \in 1..Len(s) :
                          ~IsWhitespace(s[i]) /\ \A j \in 1..(i - 1) : IsWhitespace(s[j])
             final == CHOOSE i \in 1..Len(s) :
                          ~IsWhitespace(s[i]) /\ \A j \in (i + 1)..Len(s) : IsWhitespace(s[j])
         IN  SubSeq(s, first, final)

\* str::lines: split at "\n", a "\r" before it dropped, no empty last line
RECURSIVE Lines(_)
Lines(s) ==
    IF s = << >> THEN << >>
    ELSE LET nl   == IndexOf(s, "\n")
             raw  == IF nl = 0 THEN s ELSE SubSeq(s, 1, nl - 1)
             line == IF nl # 0 /\ Len(raw) > 0 /\ raw[Len(raw)] = "\r"
                     THEN SubSeq(raw, 1, Len(raw) - 1) ELSE raw
             rest == IF nl = 0 THEN << >> ELSE SubSeq(s, nl + 1, Len(s))
         IN  << line >> \o Lines(rest)

\* str::split(sep).nth(1): the piece between the first and the second sep
SplitNth1(s, sep) ==
    LET a == IndexOf(s, sep)
    IN  IF a = 0 THEN None
        ELSE LET rest == SubSeq(s, a + 1, Len(s))
                 b    == IndexOf(rest, sep)
             IN  Some(IF b = 0 THEN rest ELSE SubSeq(rest, 1, b - 1))

STR_NA == << "N", "/", "A" >>

STR_DOTS == << ".", ".", "." >>

STR_UPS_TEMPERATURE ==
    << "u", "p", "s", ".", "t", "e", "m", "p", "e", "r", "a", "t", "u", "r", "e" >>

STR_K10TEMP == << "k", "1", "0", "t", "e", "m", "p" >>

STR_CORETEMP == << "c", "o", "r", "e", "t", "e", "m", "p" >>

STR_CPU == << "c", "p", "u" >>

STR_TCTL == << "t", "c", "t", "l" >>

(***************************************************************************)
(* SysInfo::get_physical_interfaces.  listing is what fs::read_dir of      *)
(* /sys/class/net gives: ok is FALSE when the directory cannot be read,    *)
(* entries are the readable entries in directory order, device tells       *)
(* whether /sys/class/net/<name>/device exists.                            *)
(***************************************************************************)
DiscoveredNames(listing) ==
    LET entries     == IF listing.ok THEN listing.entries ELSE << >>
        HasDevice(e) == e.device
        physical    == SelectSeq(entries, HasDevice)
    IN  [ i \in 1..Len(physical) |-> physical[i].name ]

\* the include filter alone: exclude_interfaces is never applied
GetPhysicalInterfaces_NoExclude(listing, cfg) ==
    LET Included(n) == n \in Range(Unwrap(cfg.include_interfaces))
        found == DiscoveredNames(listing)
    IN  IF IsSome(cfg.include_interfaces) THEN SelectSeq(found, Included) ELSE found

GetPhysicalInterfaces(listing, cfg) ==
    LET Included(n) == n \in Range(Unwrap(cfg.include_interfaces))
        NotExcluded(n) == n \notin Range(Unwrap(cfg.exclude_interfaces))
        found    == DiscoveredNames(listing)
        included == IF IsSome(cfg.include_interfaces)
                    THEN SelectSeq(found, Included) ELSE found
    IN  IF IsSome(cfg.exclude_interfaces)
        THEN SelectSeq(included, NotExcluded) ELSE included

\* a rescan already at the interval: >= for >
ScanDue_AtInterval(t, scanned) == t - scanned >= SCAN_INTERVAL

\* self.last_scan.elapsed() > Duration::from_secs(10), the clock reading t
ScanDue(t, scanned) == t - scanned > SCAN_INTERVAL

(***************************************************************************)
(* sysinfo::System.  A reading is what the host reports at the moment of   *)
(* the call.  refresh_specifics(... with_ram()) refreshes the RAM          *)
(* counters; whether the swap counters are refreshed with them is left to  *)
(* the library's platform code (swap_too).                                 *)
(***************************************************************************)
NewSystem(reading, with_swap) ==
    [ total_memory |-> reading.total_memory,
      used_memory  |-> reading.used_memory,
      total_swap   |-> IF with_swap THEN reading.total_swap ELSE 0,
      used_swap    |-> IF with_swap THEN reading.used_swap ELSE 0 ]

RefreshMemory(sys, reading, swap_too) ==
    [ total_memory |-> reading.total_memory,
      used_memory  |-> reading.used_memory,
      total_swap   |-> IF swap_too THEN reading.total_swap ELSE sys.total_swap,
      used_swap    |-> IF swap_too THEN reading.used_swap ELSE sys.used_swap ]

RamDividend(cfg, sys) ==
    IF cfg.include_swap_in_ram
    THEN (sys.used_memory + sys.used_swap) * 100
    ELSE sys.used_memory * 100

RamDivisor(cfg, sys) ==
    IF cfg.include_swap_in_ram
    THEN sys.total_memory + sys.total_swap
    ELSE sys.total_memory

\* u64 division; the caller has seen RamDivisor # 0
RamUsage(cfg, sys) == RamDividend(cfg, sys) \div RamDivisor(cfg, sys)

(***************************************************************************)
(* CPU temperature: the first component whose lower-cased label contains   *)
(* one of the four substrings, then its temperature (an Option).           *)
(***************************************************************************)
\* the label compared as it is, without to_lowercase
IsCpuSensor_CaseSensitive(c) ==
    \/ Contains(c.label, STR_K10TEMP)
    \/ Contains(c.label, STR_CORETEMP)
    \/ Contains(c.label, STR_CPU)
    \/ Contains(c.label, STR_TCTL)

IsCpuSensor(c) ==
    LET label == ToLowercase(c.label)
    IN  \/ Contains(label, STR_K10TEMP)
        \/ Contains(label, STR_CORETEMP)
        \/ Contains(label, STR_CPU)
        \/ Contains(label, STR_TCTL)

\* Iterator::find: the index of the first match, 0 when there is none
FindCpuSensor(comps) ==
    IF \E i \in 1..Len(comps) : IsCpuSensor(comps[i])
    THEN CHOOSE i \in 1..Len(comps) :
             IsCpuSensor(comps[i]) /\ \A j \in 1..(i - 1) : ~IsCpuSensor(comps[j])
    ELSE 0

CpuTemp(comps) ==
    LET i == FindCpuSensor(comps)
    IN  IF i = 0 THEN None ELSE comps[i].temperature

(***************************************************************************)
(* sysinfo::Networks.  refresh(true) reads the cumulative counters of the  *)
(* interfaces now present, keeps the previous reading of each as old_*,    *)
(* and drops the interfaces that are gone; an interface seen for the first *)
(* time starts with old_* equal to its counters.  transmitted() and        *)
(* received() are the bytes since the previous refresh.                    *)
(***************************************************************************)
NewNetworks(reading) ==
    [ n \in DOMAIN reading |->
        [ tx |-> reading[n].tx, old_tx |-> reading[n].tx,
          rx |-> reading[n].rx, old_rx |-> reading[n].rx ] ]

RefreshNetworks(nets, reading) ==
    [ n \in DOMAIN reading |->
        IF n \in DOMAIN nets
        THEN [ tx |-> reading[n].tx, old_tx |-> nets[n].tx,
               rx |-> reading[n].rx, old_rx |-> nets[n].rx ]
        ELSE [ tx |-> reading[n].tx, old_tx |-> reading[n].tx,
               rx |-> reading[n].rx, old_rx |-> reading[n].rx ] ]

Transmitted(d) == IF d.tx >= d.old_tx THEN d.tx - d.old_tx ELSE 0

Received(d) == IF d.rx >= d.old_rx THEN d.rx - d.old_rx ELSE 0

RECURSIVE SumOver(_, _)
SumOver(f, S) ==
    IF S = {} THEN 0
    ELSE LET n == CHOOSE m \in S : TRUE
         IN  f[n] + SumOver(f, S \ {n})

\* the interfaces of networks.iter() the loop adds up
Counted(nets, catalog) == { n \in DOMAIN nets : n \in Range(catalog) }

UploadBytes(nets, catalog) ==
    SumOver([ n \in DOMAIN nets |-> Transmitted(nets[n]) ], Counted(nets, catalog))

DownloadBytes(nets, catalog) ==
    SumOver([ n \in DOMAIN nets |-> Received(nets[n]) ], Counted(nets, catalog))

(***************************************************************************)
(* get_ups_temp.  cmd is the outcome of running upsc: spawned is FALSE     *)
(* when Command::output() returns Err, status is the exit status, stdout   *)
(* the captured standard output.                                           *)
(***************************************************************************)
GetUpsTemp(cmd) ==
    IF ~cmd.spawned THEN STR_NA
    ELSE LET lines == Lines(cmd.stdout)
             hits  == { i \in 1..Len(lines) : Contains(lines[i], STR_UPS_TEMPERATURE) }
         IN  IF hits = {} THEN STR_NA
             ELSE LET first == CHOOSE i \in hits : \A j \in hits : i <= j
                      piece == SplitNth1(lines[first], ":")
                  IN  Trim(IF IsSome(piece) THEN Unwrap(piece) ELSE STR_NA)

(***************************************************************************)
(* The GPU block of update_sysinfo_data.  gpu is what NVML answers in this *)
(* cycle: device_ok for device_by_index(0), then the three queries, each   *)
(* an Option (None when the query returns Err).  old holds the four fields *)
(* before the cycle.                                                       *)
(***************************************************************************)
\* the device asked without looking at the handle
GpuFields_NoHandleCheck(handle, gpu, old) ==
    IF gpu.device_ok
    THEN [ load       |-> gpu.utilization,
           temp       |-> gpu.temperature,
           vram_used  |-> IF IsSome(gpu.memory)
                          THEN Some(Unwrap(gpu.memory).used \div BYTES_PER_MIB)
                          ELSE old.vram_used,
           vram_total |-> IF IsSome(gpu.memory)
                          THEN Some(Unwrap(gpu.memory).total \div BYTES_PER_MIB)
                          ELSE old.vram_total ]
    ELSE old

GpuFields(handle, gpu, old) ==
    IF handle /\ gpu.device_ok
    THEN [ load       |-> gpu.utilization,
           temp       |-> gpu.temperature,
           vram_used  |-> IF IsSome(gpu.memory)
                          THEN Some(Unwrap(gpu.memory).used \div BYTES_PER_MIB)
                          ELSE old.vram_used,
           vram_total |-> IF IsSome(gpu.memory)
                          THEN Some(Unwrap(gpu.memory).total \div BYTES_PER_MIB)
                          ELSE old.vram_total ]
    ELSE old

(***************************************************************************)
(* The environment's answers.  An InitInput is what init reads; a          *)
(* TickInput is what one run of update_sysinfo_data reads:                 *)
(*   dt        seconds since the previous clock reading                    *)
(*   scan_dt   seconds get_physical_interfaces takes                       *)
(*   listing   /sys/class/net at the time of the rescan                    *)
(*   mem       the memory and swap counters of the host                    *)
(*   swap_too  whether the RAM refresh also refreshes the swap counters    *)
(*   cpu       global_cpu_usage()                                          *)
(*   sensors   the components, in enumeration order                        *)
(*   net       the cumulative counters of the interfaces present           *)
(*   ups       the outcome of running upsc                                 *)
(*   gpu       NVML's answers                                              *)
(***************************************************************************)
CoarseDt == MaxTime \div 3

NoListing == [ ok |-> FALSE, entries |-> << >> ]

NoGpu == [ device_ok |-> FALSE, utilization |-> None, temperature |-> None, memory |-> None ]

DefaultMem == [ total_memory |-> 2, used_memory |-> 1, total_swap |-> 0, used_swap |-> 0 ]

DefaultNet == [ n \in {"eth0"} |-> [ tx |-> 0, rx |-> 0 ] ]

DefaultUps == [ spawned |-> FALSE, status |-> 0, stdout |-> << >> ]

DefaultListing == [ ok |-> TRUE, entries |-> << [ name |-> "eth0", device |-> TRUE ] >> ]

DefaultConfig ==
    [ include_interfaces |-> None, exclude_interfaces |-> None, include_swap_in_ram |-> FALSE ]

DefaultInput ==
    [ dt |-> CoarseDt, scan_dt |-> 0, listing |-> DefaultListing, mem |-> DefaultMem,
      swap_too |-> FALSE, cpu |-> 0, sensors |-> << >>, net |-> DefaultNet,
      ups |-> DefaultUps, gpu |-> NoGpu ]

DefaultInit ==
    [ config |-> DefaultConfig, handler |-> TRUE, listing |-> DefaultListing,
      mem |-> DefaultMem, net |-> DefaultNet, sensors |-> << >>, nvml_ok |-> FALSE ]

(***************************************************************************)
(* SysInfo::init.                                                          *)
(***************************************************************************)
InitFrom(ini) ==
    /\ config = ini.config
    /\ config_handler = ini.handler
    /\ popup = None
    /\ next_id = 1
    /\ system = NewSystem(ini.mem, ini.config.include_swap_in_ram)
    /\ networks = NewNetworks(ini.net)
    /\ components = ini.sensors
    /\ cpu_usage = 0
    /\ cpu_temp = None
    /\ ram_usage = 0
    /\ download_speed = 0
    /\ upload_speed = 0
    /\ last_scan = 0
    /\ physical_interfaces = GetPhysicalInterfaces(ini.listing, ini.config)
    /\ ups_temp = STR_DOTS
    /\ nvml = ini.nvml_ok
    /\ gpu_load = None
    /\ gpu_temp = None
    /\ gpu_vram_used = None
    /\ gpu_vram_total = None
    /\ now = 0
    /\ crashed = FALSE
    /\ toggled = None
    /\ last = [ op |-> "init", inp |-> [ DefaultInput EXCEPT !.listing = ini.listing ],
                rescanned |-> TRUE, toggled |-> None, net_time |-> 0, net_elapsed |-> 0 ]

(***************************************************************************)
(* Message::Tick: SysInfo::update_sysinfo_data, whole.  The division of    *)
(* the RAM percentage panics on a zero divisor: the rescan, the memory     *)
(* refresh and cpu_usage have happened by then, nothing after it has.      *)
(***************************************************************************)
Tick(inp) ==
    LET t1      == now + inp.dt
        due     == ScanDue(t1, last_scan)
        t2      == IF due THEN t1 + inp.scan_dt ELSE t1
        catalog == IF due THEN GetPhysicalInterfaces(inp.listing, config)
                   ELSE physical_interfaces
        sys     == RefreshMemory(system, inp.mem, inp.swap_too)
        nets    == RefreshNetworks(networks, inp.net)
        gpu     == GpuFields(nvml, inp.gpu,
                             [ load |-> gpu_load, temp |-> gpu_temp,
                               vram_used |-> gpu_vram_used, vram_total |-> gpu_vram_total ])
        seen    == [ inp EXCEPT !.listing = IF due THEN inp.listing ELSE NoListing,
                                !.scan_dt = IF due THEN inp.scan_dt ELSE 0 ]
    IN  /\ ~crashed
        /\ t2 <= MaxTime
        /\ now' = t2
        /\ physical_interfaces' = catalog
        /\ last_scan' = IF due THEN t2 ELSE last_scan
        /\ system' = sys
        /\ cpu_usage' = inp.cpu
        /\ toggled' = None
        /\ UNCHANGED << config, config_handler, popup, next_id, nvml >>
        /\ IF RamDivisor(config, sys) = 0
           THEN /\ crashed' = TRUE
                /\ last' = [ op |-> "Tick", inp |-> seen, rescanned |-> due,
                             toggled |-> toggled, net_time |-> last.net_time,
                             net_elapsed |-> last.net_elapsed ]
                /\ UNCHANGED << networks, components, cpu_temp, ram_usage, download_speed,
                                upload_speed, ups_temp, gpu_load, gpu_temp, gpu_vram_used,
                                gpu_vram_total >>
           ELSE /\ crashed' = FALSE
                /\ ram_usage' = RamUsage(config, sys)
                /\ components' = inp.sensors
                /\ cpu_temp' = CpuTemp(inp.sensors)
                /\ networks' = nets
                /\ upload_speed' = UploadBytes(nets, catalog)
                /\ download_speed' = DownloadBytes(nets, catalog)
                /\ ups_temp' = GetUpsTemp(inp.ups)
                /\ gpu_load' = gpu.load
                /\ gpu_temp' = gpu.temp
                /\ gpu_vram_used' = gpu.vram_used
                /\ gpu_vram_total' = gpu.vram_total
                /\ last' = [ op |-> "Tick", inp |-> seen, rescanned |-> due,
                             toggled |-> toggled, net_time |-> t2,
                             net_elapsed |-> t2 - last.net_time ]

(***************************************************************************)
(* Message::ToggleWindow: destroy the popup there is, or open one under a  *)
(* fresh window id.  The applet's main window exists while messages are    *)
(* handled, so main_window_id().unwrap() returns.                          *)
(***************************************************************************)
ToggleWindow ==
    /\ ~crashed
    /\ IF IsSome(popup)
       THEN /\ popup' = None
            /\ UNCHANGED next_id
       ELSE /\ next_id <= MaxIds
            /\ popup' = Some(next_id)
            /\ next_id' = next_id + 1
    /\ last' = [ last EXCEPT !.op = "ToggleWindow" ]
    /\ UNCHANGED << config, config_handler, system, networks, components, cpu_usage,
                    cpu_temp, ram_usage, download_speed, upload_speed, last_scan,
                    physical_interfaces, ups_temp, nvml, gpu_load, gpu_temp,
                    gpu_vram_used, gpu_vram_total, now, crashed, toggled >>

(***************************************************************************)
(* Message::PopupClosed(id): popup.take_if(|stored| stored == &id).        *)
(***************************************************************************)
PopupClosed(id) ==
    /\ ~crashed
    /\ popup' = IF popup = Some(id) THEN None ELSE popup
    /\ last' = [ last EXCEPT !.op = "PopupClosed" ]
    /\ UNCHANGED << config, config_handler, next_id, system, networks, components,
                    cpu_usage, cpu_temp, ram_usage, download_speed, upload_speed,
                    last_scan, physical_interfaces, ups_temp, nvml, gpu_load, gpu_temp,
                    gpu_vram_used, gpu_vram_total, now, crashed, toggled >>

(***************************************************************************)
(* Message::ToggleIncludeSwapWithRam(value).  Only with a configuration    *)
(* handler is the setter called.  persisted is whether the setter's write  *)
(* succeeds; when it fails the error is logged, and in_memory tells        *)
(* whether the setter had stored the value in self.config before failing.  *)
(***************************************************************************)
ToggleIncludeSwapWithRam(value, persisted, in_memory) ==
    /\ ~crashed
    /\ persisted => in_memory
    /\ config' = IF config_handler /\ in_memory
                 THEN [ config EXCEPT !.include_swap_in_ram = value ]
                 ELSE config
    /\ toggled' = Some(value)
    /\ last' = [ last EXCEPT !.op = "ToggleIncludeSwapWithRam" ]
    /\ UNCHANGED << config_handler, popup, next_id, system, networks, components,
                    cpu_usage, cpu_temp, ram_usage, download_speed, upload_speed,
                    last_scan, physical_interfaces, ups_temp, nvml, gpu_load, gpu_temp,
                    gpu_vram_used, gpu_vram_total, now, crashed >>

\* the three messages other than Tick
Message ==
    \/ ToggleWindow
    \/ \E id \in 1..MaxIds : PopupClosed(id)
    \/ \E value \in BOOLEAN, persisted \in BOOLEAN, in_memory \in BOOLEAN :
           ToggleIncludeSwapWithRam(value, persisted, in_memory)

(***************************************************************************)
(* The sets the environment's answers are drawn from.                      *)
(***************************************************************************)
\* the injective sequences over S of length at most k
SeqsNoRepeat(S, k) ==
    { q \in UNION { [ 1..m -> S ] : m \in 0..k } :
        \A i \in 1..Len(q), j \in 1..Len(q) : i # j => q[i] # q[j] }

\* memory and swap counters: used never above total
MemReadings ==
    { r \in [ total_memory : 0..MaxMem, used_memory : 0..MaxMem,
              total_swap : 0..MaxSwap, used_swap : 0..MaxSwap ] :
        r.used_memory <= r.total_memory /\ r.used_swap <= r.total_swap }

\* /sys/class/net: the loopback device has no device link
IfNames == { "eth0", "wlan0", "lo" }

EntryOf(n) == [ name |-> n, device |-> n # "lo" ]

Listings ==
    { NoListing } \cup
    { [ ok |-> TRUE, entries |-> [ i \in 1..Len(q) |-> EntryOf(q[i]) ] ] :
        q \in SeqsNoRepeat(IfNames, Cardinality(IfNames)) }

ScanListings ==
    { l \in Listings : Len(l.entries) # 1 /\ (Len(l.entries) > 0 => l.entries[1].name = "eth0") }

IfLists == { None, Some(<< >>), Some(<< "eth0" >>), Some(<< "wlan0" >>),
             Some(<< "eth0", "wlan0" >>), Some(<< "lo", "eth0" >>) }

FilterConfigs ==
    { [ include_interfaces |-> inc, exclude_interfaces |-> exc, include_swap_in_ram |-> FALSE ] :
        inc \in IfLists, exc \in IfLists }

\* "ups.temperature: 25"
LINE_TEMP ==
    << "u", "p", "s", ".", "t", "e", "m", "p", "e", "r", "a", "t", "u", "r", "e", ":",
       " ", "2", "5", "\n" >>

\* "battery.charge: 100"
LINE_CHARGE ==
    << "b", "a", "t", "t", "e", "r", "y", ".", "c", "h", "a", "r", "g", "e", ":", " ",
       "1", "0", "0", "\n" >>

\* "ups.temperature:31 :C" ending in CR LF: a second colon
LINE_TEMP_CRLF ==
    << "u", "p", "s", ".", "t", "e", "m", "p", "e", "r", "a", "t", "u", "r", "e", ":",
       "3", "1", " ", ":", "C", "\r", "\n" >>

\* "ups.temperature": the key and no colon
LINE_TEMP_BARE ==
    << "u", "p", "s", ".", "t", "e", "m", "p", "e", "r", "a", "t", "u", "r", "e", "\n" >>

\* "Tctl"
LABEL_TCTL ==
    << "T", "c", "t", "l" >>

\* "Core 0"
LABEL_CORE0 ==
    << "C", "o", "r", "e", " ", "0" >>

\* "acpitz"
LABEL_ACPITZ ==
    << "a", "c", "p", "i", "t", "z" >>

\* "CPU"
LABEL_CPU ==
    << "C", "P", "U" >>

UpsLines == { LINE_TEMP, LINE_CHARGE, LINE_TEMP_CRLF, LINE_TEMP_BARE }

RECURSIVE Concat(_)
Concat(q) == IF q = << >> THEN << >> ELSE Head(q) \o Concat(Tail(q))

UpsOutcomes ==
    { [ spawned |-> FALSE, status |-> 0, stdout |-> << >> ] } \cup
    { [ spawned |-> TRUE, status |-> st, stdout |-> Concat(q) ] :
        st \in 0..1, q \in UNION { [ 1..m -> UpsLines ] : m \in 0..MaxLines } }

Sensors ==
    { [ label |-> LABEL_TCTL,   temperature |-> Some(45) ],
      [ label |-> LABEL_CORE0,  temperature |-> Some(50) ],
      [ label |-> LABEL_ACPITZ, temperature |-> Some(30) ],
      [ label |-> LABEL_CPU,    temperature |-> None ] }

SensorLists == SeqsNoRepeat(Sensors, MaxSensors)

GpuAnswers ==
    { NoGpu } \cup
    { [ device_ok |-> TRUE, utilization |-> u, temperature |-> t, memory |-> m ] :
        u \in { None, Some(50), Some(70) },
        t \in { None, Some(60) },
        m \in { None,
                Some([ used |-> 2 * BYTES_PER_MIB + 1, total |-> 8 * BYTES_PER_MIB ]),
                Some([ used |-> 3 * BYTES_PER_MIB, total |-> 8 * BYTES_PER_MIB ]) } }

\* cumulative byte counters of the interfaces present
CounterPairs ==
    { [ tx |-> 0, rx |-> 0 ],
      [ tx |-> BYTES_PER_MB, rx |-> 2 * BYTES_PER_MB ],
      [ tx |-> 3 * BYTES_PER_MB, rx |-> 5 * BYTES_PER_MB ] }

\* eth0 alone, or eth0 beside the loopback device, or no interface at all
NetReadings ==
    { << >> } \cup
    { [ n \in { "eth0" } |-> p ] : p \in CounterPairs } \cup
    { [ n \in { "eth0", "lo" } |-> IF n = "eth0" THEN p ELSE [ tx |-> p.rx, rx |-> p.tx ] ] :
        p \in CounterPairs }

NetListings == { NoListing, DefaultListing }

(***************************************************************************)
(* Specifications.  Each draws one part of the environment from its full   *)
(* set and holds the rest at the defaults; all of them handle the four     *)
(* messages.                                                               *)
(***************************************************************************)
\* memory: every reading, either start value of the toggle, with and without handler
InitMem ==
    \E c \in BOOLEAN, h \in BOOLEAN, m \in MemReadings :
        InitFrom([ DefaultInit EXCEPT !.config.include_swap_in_ram = c,
                                      !.handler = h, !.mem = m ])

NextMem ==
    \/ \E m \in MemReadings, b \in BOOLEAN :
           Tick([ DefaultInput EXCEPT !.mem = m, !.swap_too = b ])
    \/ Message

SpecMem == InitMem /\ [][NextMem]_vars

\* interface filters: every filter configuration against every directory listing
InitCatalog ==
    \E c \in FilterConfigs, l \in Listings :
        InitFrom([ DefaultInit EXCEPT !.config = c, !.listing = l ])

NextCatalog ==
    \/ \E l \in Listings : Tick([ DefaultInput EXCEPT !.listing = l ])
    \/ Message

SpecCatalog == InitCatalog /\ [][NextCatalog]_vars

\* rescan timing: ticks one to MaxDt seconds apart, a rescan taking up to a second
InitScan ==
    \E l \in ScanListings : InitFrom([ DefaultInit EXCEPT !.listing = l ])

NextScan ==
    \/ \E d \in 1..MaxDt, sd \in 0..1, l \in ScanListings :
           Tick([ DefaultInput EXCEPT !.dt = d, !.scan_dt = sd, !.listing = l ])
    \/ Message

SpecScan == InitScan /\ [][NextScan]_vars

\* network counters: readings one second or more than a scan interval apart
NetDts == { 1, SCAN_INTERVAL + 1 }

InitNet ==
    \E l \in NetListings, n \in NetReadings :
        InitFrom([ DefaultInit EXCEPT !.listing = l, !.net = n ])

NextNet ==
    \/ \E d \in NetDts, l \in NetListings, n \in NetReadings :
           /\ now + d <= SCAN_INTERVAL + 1 + MaxDt
           /\ Tick([ DefaultInput EXCEPT !.dt = d, !.listing = l, !.net = n ])
    \/ Message

SpecNet == InitNet /\ [][NextNet]_vars

\* thermal sensors: every enumeration of up to MaxSensors sensors
InitSensors ==
    \E q \in SensorLists : InitFrom([ DefaultInit EXCEPT !.sensors = q ])

NextSensors ==
    \/ \E q \in SensorLists : Tick([ DefaultInput EXCEPT !.sensors = q ])
    \/ Message

SpecSensors == InitSensors /\ [][NextSensors]_vars

\* upsc: every outcome
InitUps == InitFrom(DefaultInit)

NextUps ==
    \/ \E u \in UpsOutcomes : Tick([ DefaultInput EXCEPT !.ups = u ])
    \/ Message

SpecUps == InitUps /\ [][NextUps]_vars

\* NVML: init succeeding or failing, every answer of a cycle
InitGpu ==
    \E ok \in BOOLEAN : InitFrom([ DefaultInit EXCEPT !.nvml_ok = ok ])

NextGpu ==
    \/ \E g \in GpuAnswers : Tick([ DefaultInput EXCEPT !.gpu = g ])
    \/ Message

SpecGpu == InitGpu /\ [][NextGpu]_vars

\* an empty catalog beside a host that reports no memory
ZeroMem == [ total_memory |-> 0, used_memory |-> 0, total_swap |-> 0, used_swap |-> 0 ]

EmptyListings ==
    { NoListing, DefaultListing, [ ok |-> TRUE, entries |-> << EntryOf("lo") >> ] }

InitEmpty ==
    \E l \in EmptyListings, n \in NetReadings :
        InitFrom([ DefaultInit EXCEPT !.listing = l, !.net = n ])

NextEmpty ==
    \/ \E l \in EmptyListings, n \in NetReadings, m \in { DefaultMem, ZeroMem } :
           Tick([ DefaultInput EXCEPT !.listing = l, !.net = n, !.mem = m ])
    \/ Message

SpecEmpty == InitEmpty /\ [][NextEmpty]_vars

\* every part of the environment at its default but the clock
Init == InitFrom(DefaultInit)

Next ==
    \/ \E d \in 1..MaxDt : Tick([ DefaultInput EXCEPT !.dt = d ])
    \/ Message

Spec == Init /\ [][Next]_vars

(***************************************************************************)
(* Properties.                                                             *)
(***************************************************************************)
TickDone == last.op = "Tick" /\ ~crashed

GpuAllNone ==
    /\ gpu_load = None
    /\ gpu_temp = None
    /\ gpu_vram_used = None
    /\ gpu_vram_total = None

\* C1: after any Tick, with either value of include_swap_in_ram: a divisor
\* above zero gives ram_usage within 0..100, and a total memory of zero gives
\* a completed Tick with ram_usage = 0, never an arithmetic fault.
C1_RamUsageDefined ==
    last.op = "Tick" =>
        /\ ~crashed
        /\ RamDivisor(config, system) > 0 => ram_usage \in 0..100
        /\ system.total_memory = 0 => ram_usage = 0

\* the part of C1 the code keeps: a Tick that completes leaves a percentage
RamUsageInRange == TickDone => ram_usage \in 0..100

\* C2: the stored catalog never holds a name of exclude_interfaces (also when
\* the name is in include_interfaces), and with include_interfaces present
\* it holds only names of include_interfaces.
C2_ExcludeWins ==
    /\ IsSome(config.exclude_interfaces) =>
           Range(physical_interfaces) \cap Range(Unwrap(config.exclude_interfaces)) = {}
    /\ IsSome(config.include_interfaces) =>
           Range(physical_interfaces) \subseteq Range(Unwrap(config.include_interfaces))

\* a rescan saw a physical interface named in both lists, and kept another one
C2_Witness ==
    /\ TickDone
    /\ last.rescanned
    /\ IsSome(config.include_interfaces)
    /\ IsSome(config.exclude_interfaces)
    /\ \E n \in Range(DiscoveredNames(last.inp.listing)) :
           /\ n \in Range(Unwrap(config.include_interfaces))
           /\ n \in Range(Unwrap(config.exclude_interfaces))
    /\ physical_interfaces # << >>

\* C3: when Nvml::init failed, the handle stays absent through every message
\* and the four GPU fields stay None.
C3_GpuDisabledForever ==
    /\ [](~nvml => GpuAllNone)
    /\ [][~nvml => ~nvml']_vars

\* without a handle, a Tick ran while the device would have answered every query
C3_Witness ==
    /\ TickDone
    /\ ~nvml
    /\ last.inp.gpu.device_ok
    /\ IsSome(last.inp.gpu.utilization)
    /\ IsSome(last.inp.gpu.temperature)
    /\ IsSome(last.inp.gpu.memory)

\* the text after the first colon of a line, None when it has no colon
AfterFirstColon(line) ==
    LET a == IndexOf(line, ":")
    IN  IF a = 0 THEN None ELSE Some(SubSeq(line, a + 1, Len(line)))

\* C4: after a Tick in which upsc did not run, exited non-zero, or printed no
\* line with "ups.temperature", ups_temp is "N/A"; otherwise it is the
\* trimmed text after the first colon of the first such line.
C4_UpsTempOrSentinel ==
    TickDone =>
        LET cmd   == last.inp.ups
            lines == Lines(cmd.stdout)
            hits  == { i \in 1..Len(lines) : Contains(lines[i], STR_UPS_TEMPERATURE) }
        IN  IF ~cmd.spawned \/ cmd.status # 0 \/ hits = {}
            THEN ups_temp = STR_NA
            ELSE LET first == CHOOSE i \in hits : \A j \in hits : i <= j
                     text  == AfterFirstColon(lines[first])
                 IN  IsSome(text) => ups_temp = Trim(Unwrap(text))

\* C5: the Tick that follows ToggleIncludeSwapWithRam(v) computes ram_usage
\* from the counters v selects, all of them as the host reports them in
\* that Tick, with or without a configuration handler.
C5_ToggleTakesEffect ==
    (TickDone /\ IsSome(last.toggled)) =>
        LET v == Unwrap(last.toggled)
            r == last.inp.mem
            dividend == IF v THEN (r.used_memory + r.used_swap) * 100
                        ELSE r.used_memory * 100
            divisor  == IF v THEN r.total_memory + r.total_swap ELSE r.total_memory
        IN  divisor > 0 => ram_usage = dividend \div divisor

\* C6: at the end of a Tick every source that gave no reading in it has its
\* fields at the fallback: cpu_temp None, ups_temp "N/A", and the GPU fields
\* None, none of them keeping a value of an earlier cycle.
C6_FallbackEveryCycle ==
    last.op = "Tick" =>
        /\ ~crashed
        /\ FindCpuSensor(last.inp.sensors) = 0 => cpu_temp = None
        /\ ~last.inp.ups.spawned => ups_temp = STR_NA
        /\ (~nvml \/ ~last.inp.gpu.device_ok) => GpuAllNone
        /\ last.inp.gpu.utilization = None => gpu_load = None
        /\ last.inp.gpu.temperature = None => gpu_temp = None
        /\ last.inp.gpu.memory = None => (gpu_vram_used = None /\ gpu_vram_total = None)

\* C7: a Tick rebuilds the catalog exactly when the clock is more than
\* SCAN_INTERVAL past last_scan; a rebuild stores the discovery under the
\* current configuration and the clock; any other step leaves catalog and
\* last_scan alone; two rebuilds are more than SCAN_INTERVAL apart.
C7_RescanTiming ==
    [][ /\ last'.op = "Tick" =>
              /\ last'.rescanned <=> (now + last'.inp.dt) - last_scan > SCAN_INTERVAL
              /\ last'.rescanned =>
                     /\ physical_interfaces' =
                            GetPhysicalInterfaces(last'.inp.listing, config)
                     /\ last_scan' = now'
                     /\ last_scan' - last_scan > SCAN_INTERVAL
              /\ ~last'.rescanned => UNCHANGED << physical_interfaces, last_scan >>
        /\ last'.op # "Tick" => UNCHANGED << physical_interfaces, last_scan >>
      ]_vars

\* the second rebuild, and it changed the catalog
C7_Witness ==
    /\ TickDone
    /\ last.rescanned
    /\ last_scan > 2 * SCAN_INTERVAL
    /\ physical_interfaces = << "eth0", "wlan0" >>

\* a Tick exactly SCAN_INTERVAL after the last scan does not rebuild
C7_BoundaryReached ==
    /\ TickDone
    /\ ~last.rescanned
    /\ now - last_scan = SCAN_INTERVAL

\* C8: the published rate is the sum over the catalog's interfaces of
\* max(0, current - previous), divided by the elapsed seconds and by
\* 1,000,000; interfaces outside the catalog add nothing.
C8_RatePerSecond ==
    (TickDone /\ last.net_elapsed > 0) =>
        LET tracked == { n \in DOMAIN networks : n \in Range(physical_interfaces) }
            Up(n)   == IF networks[n].tx > networks[n].old_tx
                       THEN networks[n].tx - networks[n].old_tx ELSE 0
            Down(n) == IF networks[n].rx > networks[n].old_rx
                       THEN networks[n].rx - networks[n].old_rx ELSE 0
        IN  /\ upload_speed * last.net_elapsed
                   = SumOver([ n \in tracked |-> Up(n) ], tracked)
            /\ download_speed * last.net_elapsed
                   = SumOver([ n \in tracked |-> Down(n) ], tracked)

\* the example of C8, one second apart: upload 2.0 and download 3.0
NetRateExample ==
    ( /\ TickDone
      /\ last.net_elapsed = 1
      /\ physical_interfaces = << "eth0" >>
      /\ "eth0" \in DOMAIN networks
      /\ networks["eth0"].old_tx = BYTES_PER_MB /\ networks["eth0"].tx = 3 * BYTES_PER_MB
      /\ networks["eth0"].old_rx = 2 * BYTES_PER_MB /\ networks["eth0"].rx = 5 * BYTES_PER_MB )
    => (upload_speed = 2 * BYTES_PER_MB /\ download_speed = 3 * BYTES_PER_MB)

\* C9: a Tick run with an empty catalog completes and publishes zero upload
\* and download speed, whatever the counters.
C9_EmptyCatalogZeroRate ==
    (last.op = "Tick" /\ physical_interfaces = << >>) =>
        /\ ~crashed
        /\ upload_speed = 0
        /\ download_speed = 0

\* the part of C9 the code keeps: discovery of nothing is an empty catalog,
\* and a Tick that completes with it publishes zero
EmptyCatalogZeroRate ==
    /\ (last.rescanned /\ DiscoveredNames(last.inp.listing) = << >>) =>
           physical_interfaces = << >>
    /\ (TickDone /\ physical_interfaces = << >>) =>
           (upload_speed = 0 /\ download_speed = 0)

\* whether label holds candidate at some offset, letter case aside
HoldsIgnoringCase(label, candidate) ==
    \E off \in 0..(Len(label) - Len(candidate)) :
        \A k \in 1..Len(candidate) : LowerChar(label[off + k]) = candidate[k]

ClaimedCpuLabel(label) ==
    \E candidate \in { STR_K10TEMP, STR_CORETEMP, STR_CPU, STR_TCTL } :
        HoldsIgnoringCase(label, candidate)

\* C10: cpu_temp is the temperature of the first sensor, in enumeration
\* order, whose label holds one of k10temp, coretemp, cpu, tctl in any letter
\* case, and None when no label does; "Tctl", "Core 0", "acpitz" in any order
\* select "Tctl".
C10_FirstMatchingSensor ==
    TickDone =>
        LET comps == last.inp.sensors
            hits  == { i \in 1..Len(comps) : ClaimedCpuLabel(comps[i].label) }
        IN  /\ hits = {} => cpu_temp = None
            /\ hits # {} =>
                   cpu_temp = comps[CHOOSE i \in hits : \A j \in hits : i <= j].temperature
            /\ { comps[i].label : i \in 1..Len(comps) }
                   = { LABEL_TCTL, LABEL_CORE0, LABEL_ACPITZ } => cpu_temp = Some(45)

\* "Tctl" enumerated after the two sensors that do not match
C10_Witness ==
    /\ TickDone
    /\ Len(components) = 3
    /\ components[1].label = LABEL_CORE0
    /\ components[2].label = LABEL_ACPITZ
    /\ components[3].label = LABEL_TCTL
    /\ cpu_temp = Some(45)

====
